---- MODULE Spec2Model ----
(***************************************************************************)
(* A model of the HashMap of src/src/HashMap.ts (src/unnamed/part_001) and *)
(* of its Entry handle (src/src/Entry.ts).                                 *)
(*                                                                         *)
(* A map is a record [buckets, count]: #buckets is a sequence of buckets,  *)
(* each bucket a sequence of <<key, value>> pairs, and #count the entry    *)
(* counter.  Keys are JavaScript primitives hashed by the default hasher.  *)
(* KeyList names them: [t |-> typeof key, s |-> the character codes of     *)
(* String(key), negZero |-> whether it is -0]; the state holds a key as    *)
(* its position in KeyList.                                                *)
(* Sequences are 1-based, so the bucket with JavaScript index i is         *)
(* buckets[i + 1].                                                         *)
(***************************************************************************)
EXTENDS Integers, Sequences, FiniteSets, TLC

VARIABLES
  map,       \* the HashMap object: [buckets |-> #buckets, count |-> #count]
  last,      \* the call that has just returned: name, arguments, result, bucket count before
  assoc,     \* history: for each key, the value most recently set and not removed since
  pristine,  \* history: built by new HashMap() and touched by set() only
  handle,    \* the Entry the caller keeps: its #key, and (history) what get gave when it was made
  gen,       \* the generator drain() returned: where its body stands, its oldBuckets, and history
  hashers    \* the object-key hasher built: its closure, the objects, its last call, and history

vars == <<map, last, assoc, pristine, handle, gen, hashers>>

-----------------------------------------------------------------------------
(* Bounds of the model.                                                    *)

\* how many objects the object-key hashers are given
NumObjects == 3

\* how many of the keys of KeyList the operations of Spec draw from
NumKeys == 4
\* values are 1..MaxVal
MaxVal == 2
\* the largest argument of withCapacity, reserve and shrinkTo
MaxN == 6
\* how many of the keys of KeyList the operations of SpecGrow draw from
GrowKeys == 7
\* how many of the keys of KeyList the operations of SpecDrain draw from
DrainKeys == 3
\* how many other calls SpecDrain makes on the map once drain() was called
MaxAsides == 1
\* the longest array handed to HashMap.from at the start of SpecFrom
MaxPairs == 3

-----------------------------------------------------------------------------
(* Program constants.                                                      *)

\* static loadThreshold = 0.75, kept as the exact fraction LoadNum / LoadDen
LoadNum == 3
LoadDen == 4
\* the constructor's Array.from({ length: 8 }, ...)
InitialBuckets == 8

\* the least signed 32-bit integer, -2^31
MinInt32 == -2147483647 - 1

-----------------------------------------------------------------------------
(* Keys, and the default hasher.                                           *)

Key(t, s) == [t |-> t, s |-> s, negZero |-> FALSE]

\* the number -0: String(-0) is "0", and Object.is(0, -0) is false
NegZero == [t |-> "number", s |-> <<48>>, negZero |-> TRUE]

\* "a" "b" "c" "i" are strings, 0 -0 1 2 3 7 are numbers
KeyList ==
  << Key("string", <<97>>),  Key("number", <<48>>), Key("string", <<98>>),
     NegZero,                Key("string", <<99>>), Key("number", <<49>>),
     Key("string", <<105>>), Key("number", <<50>>), Key("number", <<51>>),
     Key("number", <<55>>) >>

Keys == 1..NumKeys
GrowKeySet == 1..GrowKeys
DrainKeySet == 1..DrainKeys
AllKeys == 1..Len(KeyList)
Vals == 1..MaxVal

\* a capacity for which the bucket count asked of resize lies between 2^30 and 2^31
HugeCapacity == 1500000000
\* the arguments of withCapacity, reserve and shrinkTo in SpecHuge
Capacities == (0..MaxN) \cup {HugeCapacity}

\* the character codes of `typeof key`
TypeOf(key) ==
  IF KeyList[key].t = "string" THEN <<115, 116, 114, 105, 110, 103>>
  ELSE <<110, 117, 109, 98, 101, 114>>

\* the template literal `${typeof key}: ${key}`
Template(key) == TypeOf(key) \o <<58, 32>> \o KeyList[key].s

\* a pair of 16-bit halves read as a signed 32-bit integer (the `| 0`)
ToInt32(hi, lo) ==
  IF hi >= 32768 THEN (hi - 65536) * 65536 + lo ELSE hi * 65536 + lo

\* one round of the loop: ((hash << 5) - hash + c) | 0, which is 31 * hash + c
\* wrapped to 32 bits; done on 16-bit halves so that no product leaves 32 bits
HashStep(hash, c) ==
  LET lo == hash % 65536
      hi == (hash \div 65536) % 65536
      t  == lo * 31 + c
  IN  ToInt32((hi * 31 + t \div 65536) % 65536, t % 65536)

RECURSIVE HashFrom(_, _, _)
HashFrom(input, i, hash) ==
  IF i > Len(input) THEN hash
  ELSE HashFrom(input, i + 1, HashStep(hash, input[i]))

hashString(input) == HashFrom(input, 1, 0)

\* defaultHasher().hash, tabulated once over the keys of the model
HashTable == [ key \in AllKeys |-> hashString(Template(key)) ]

hash(key) == HashTable[key]

\* defaultHasher().equals: Object.is
equals(key1, key2) == KeyList[key1] = KeyList[key2]

-----------------------------------------------------------------------------
(* 32-bit integer helpers.                                                 *)

\* a & b for non-negative a and b
RECURSIVE BitAnd(_, _)
BitAnd(a, b) ==
  IF a = 0 \/ b = 0 THEN 0
  ELSE (a % 2) * (b % 2) + 2 * BitAnd(a \div 2, b \div 2)

\* Math.abs(hash) & mask for a mask in 0..2^31-1.  Math.abs(-2^31) is 2^31,
\* whose low 31 bits are all zero.
AbsAnd(h, mask) ==
  IF h = MinInt32 THEN 0
  ELSE BitAnd(IF h < 0 THEN -h ELSE h, mask)

RECURSIVE BitLength(_)
BitLength(x) == IF x = 0 THEN 0 ELSE 1 + BitLength(x \div 2)

\* Math.clz32(x) for x in 0..2^31-1
clz32(x) == 32 - BitLength(x)

\* 1 << s: the shift count is taken modulo 32, and bit 31 is the sign bit
ShiftLeftOne(s) == IF s % 32 = 31 THEN MinInt32 ELSE 2 ^ (s % 32)

Max(a, b) == IF a >= b THEN a ELSE b

\* Math.ceil(n * loadThreshold) for an integer n >= 0, computed on the quotient
\* and the remainder of n by LoadDen so that no product leaves 32 bits
CeilTimesLoad(n) ==
  (n \div LoadDen) * LoadNum + ((n % LoadDen) * LoadNum + LoadDen - 1) \div LoadDen

\* Math.ceil(n / loadThreshold) for an integer n >= 0, computed on the quotient
\* and the remainder of n by LoadNum so that no product leaves 32 bits
CeilOverLoad(n) ==
  (n \div LoadNum) * LoadDen + ((n % LoadNum) * LoadDen + LoadNum - 1) \div LoadNum

-----------------------------------------------------------------------------
(* Option<T>.                                                              *)

some(v) == <<"Some", v>>
none == <<"None">>
isSome(o) == o[1] = "Some"

-----------------------------------------------------------------------------
(* HashMap.                                                                *)

\* Array.from({ length: n }, () => []): a negative length counts as 0
EmptyBuckets(n) == [ i \in 1..n |-> <<>> ]

\* new HashMap()
NewHashMap == [buckets |-> EmptyBuckets(InitialBuckets), count |-> 0]

size(m) == m.count

buckets(m) == Len(m.buckets)

\* a faulty variant: the signed hash is reduced modulo the bucket count
getBucket_Mod(m, key) == (hash(key) % Len(m.buckets)) + 1

\* getBucket: the (1-based) position of the bucket that would hold key
getBucket(m, key) == AbsAnd(hash(key), Len(m.buckets) - 1) + 1

\* the `for (let i = 0; ...)` scan of a bucket: the first position whose key
\* equals key, or 0
FindIn(bucket, key) ==
  LET hits == { i \in 1..Len(bucket) : equals(key, bucket[i][1]) }
  IN  IF hits = {} THEN 0 ELSE CHOOSE i \in hits : \A j \in hits : i <= j

\* a faulty variant: the rehash assigns the pair to its bucket where the code pushes it
RECURSIVE Redistribute_Assign(_, _, _)
Redistribute_Assign(pairs, i, bs) ==
  IF i > Len(pairs) THEN bs
  ELSE LET b == AbsAnd(hash(pairs[i][1]), Len(bs) - 1) + 1
       IN  Redistribute_Assign(pairs, i + 1, [bs EXCEPT ![b] = <<pairs[i]>>])

\* the rehash loop of resize: push every pair, in order, into its new bucket.
\* With no bucket at all the first push is on undefined and throws: resize
\* ends there, with the new (empty) store in place
RECURSIVE Redistribute(_, _, _)
Redistribute(pairs, i, bs) ==
  IF i > Len(pairs) \/ Len(bs) = 0 THEN bs
  ELSE LET b == AbsAnd(hash(pairs[i][1]), Len(bs) - 1) + 1
       IN  Redistribute(pairs, i + 1, [bs EXCEPT ![b] = Append(@, pairs[i])])

\* [Symbol.iterator]: the pairs in bucket order, then in order within a bucket
RECURSIVE IterFrom(_, _)
IterFrom(bs, i) ==
  IF i > Len(bs) THEN <<>> ELSE bs[i] \o IterFrom(bs, i + 1)

Iterate(m) == IterFrom(m.buckets, 1)

resize(m, newBucketCount) ==
  LET bucketCountFinal ==
        ShiftLeftOne(32 - clz32(Max(newBucketCount, 1) - 1))
  IN  [m EXCEPT !.buckets =
         Redistribute(Iterate(m), 1, EmptyBuckets(bucketCountFinal))]

\* HashMap.withCapacity(capacity)
withCapacity(capacity) == resize(NewHashMap, CeilTimesLoad(capacity))

\* a faulty variant: the growth check compares the count with the bucket count
GrowIfOverloaded_Full(m) ==
  IF m.count > Len(m.buckets) THEN resize(m, Len(m.buckets) * 2) ELSE m

\* a faulty variant: the growth check uses >= where the code uses >
GrowIfOverloaded_Geq(m) ==
  IF m.count * LoadDen >= LoadNum * Len(m.buckets)
  THEN resize(m, Len(m.buckets) * 2)
  ELSE m

\* the growth check at the end of set
GrowIfOverloaded(m) ==
  IF m.count * LoadDen > LoadNum * Len(m.buckets)
  THEN resize(m, Len(m.buckets) * 2)
  ELSE m

\* a faulty variant: set never scans the bucket, it always appends
set_NoScan(m, key, value) ==
  GrowIfOverloaded(
    [buckets |-> [m.buckets EXCEPT ![getBucket(m, key)] = Append(@, <<key, value>>)],
     count   |-> m.count + 1])

set(m, key, value) ==
  LET b == getBucket(m, key)
      i == FindIn(m.buckets[b], key)
  IN  IF i > 0
      THEN [m EXCEPT !.buckets[b][i] = <<m.buckets[b][i][1], value>>]
      ELSE GrowIfOverloaded(
             [buckets |-> [m.buckets EXCEPT ![b] = Append(@, <<key, value>>)],
              count   |-> m.count + 1])

get(m, key) ==
  LET b == getBucket(m, key)
      i == FindIn(m.buckets[b], key)
  IN  IF i > 0 THEN some(m.buckets[b][i][2]) ELSE none

has(m, key) == isSome(get(m, key))

\* a faulty variant: the last pair is moved into the place of the removed one
Splice_SwapLast(bucket, i) ==
  IF i = Len(bucket) THEN SubSeq(bucket, 1, i - 1)
  ELSE SubSeq([bucket EXCEPT ![i] = bucket[Len(bucket)]], 1, Len(bucket) - 1)

\* bucket.splice(i, 1)
Splice(bucket, i) == SubSeq(bucket, 1, i - 1) \o SubSeq(bucket, i + 1, Len(bucket))

\* a faulty variant: remove forgets this.#count--
remove_KeepCount(m, key) ==
  LET b == getBucket(m, key)
      i == FindIn(m.buckets[b], key)
  IN  IF i > 0
      THEN [map |-> [m EXCEPT !.buckets[b] = Splice(@, i)],
            ret |-> some(m.buckets[b][i][2])]
      ELSE [map |-> m, ret |-> none]

\* a faulty variant: remove takes the first pair of the bucket, whatever its key
remove_NoCompare(m, key) ==
  LET b == getBucket(m, key)
  IN  IF Len(m.buckets[b]) > 0
      THEN [map |-> [buckets |-> [m.buckets EXCEPT ![b] = Splice(@, 1)],
                     count   |-> m.count - 1],
            ret |-> some(m.buckets[b][1][2])]
      ELSE [map |-> m, ret |-> none]

\* remove: the map afterwards and the value returned
remove(m, key) ==
  LET b == getBucket(m, key)
      i == FindIn(m.buckets[b], key)
  IN  IF i > 0
      THEN [map |-> [buckets |-> [m.buckets EXCEPT ![b] = Splice(@, i)],
                     count   |-> m.count - 1],
            ret |-> some(m.buckets[b][i][2])]
      ELSE [map |-> m, ret |-> none]

\* the loop of from: map.set(key, value) for each pair of the array, in order
RECURSIVE SetAll(_, _, _)
SetAll(m, fromArray, i) ==
  IF i > Len(fromArray) THEN m
  ELSE SetAll(set(m, fromArray[i][1], fromArray[i][2]), fromArray, i + 1)

\* a faulty variant: the array is walked from its last pair to its first
from_Reversed(fromArray) ==
  SetAll(withCapacity(Len(fromArray)),
         [ i \in 1..Len(fromArray) |-> fromArray[Len(fromArray) + 1 - i] ], 1)

\* HashMap.from(fromArray)
from(fromArray) == SetAll(withCapacity(Len(fromArray)), fromArray, 1)

capacity(m) == (Len(m.buckets) * LoadNum) \div LoadDen

\* a faulty variant: reserve forgets the entries already stored
reserve_NoCount(m, newCount) ==
  LET newBucketCount == CeilOverLoad(newCount)
  IN  IF newBucketCount >= Len(m.buckets) THEN resize(m, newBucketCount) ELSE m

reserve(m, newCount) ==
  LET newTotal == newCount + m.count
      newBucketCount == CeilOverLoad(newTotal)
  IN  IF newBucketCount >= Len(m.buckets) THEN resize(m, newBucketCount) ELSE m

\* a faulty variant: shrinkToFit forgets the load threshold
shrinkToFit_NoLoad(m) ==
  IF m.count < Len(m.buckets) THEN resize(m, m.count) ELSE m

shrinkToFit(m) ==
  LET newBucketCount == CeilOverLoad(m.count)
  IN  IF newBucketCount < Len(m.buckets) THEN resize(m, newBucketCount) ELSE m

\* a faulty variant: every other case falls back to shrinkToFit (a plain else)
shrinkTo_Else(m, newCapacity) ==
  LET targetBucketCount == CeilOverLoad(newCapacity)
      minBuckets == CeilOverLoad(m.count)
  IN  IF targetBucketCount >= minBuckets /\ targetBucketCount < Len(m.buckets)
      THEN resize(m, targetBucketCount)
      ELSE shrinkToFit(m)

\* a faulty variant: shrinkTo does not look at what the contents need
shrinkTo_NoMin(m, newCapacity) ==
  LET targetBucketCount == CeilOverLoad(newCapacity)
  IN  IF targetBucketCount < Len(m.buckets) THEN resize(m, targetBucketCount) ELSE m

shrinkTo(m, newCapacity) ==
  LET targetBucketCount == CeilOverLoad(newCapacity)
      minBuckets == CeilOverLoad(m.count)
  IN  IF targetBucketCount >= minBuckets /\ targetBucketCount < Len(m.buckets)
      THEN resize(m, targetBucketCount)
      ELSE IF targetBucketCount < minBuckets THEN shrinkToFit(m) ELSE m

\* a faulty variant: clear goes back to the constructor's bucket store
clear_Default(m) == NewHashMap

clear(m) == [buckets |-> EmptyBuckets(Len(m.buckets)), count |-> 0]

-----------------------------------------------------------------------------
(* retain.  fn is the callback, tabulated over the <<value, key>> it can   *)
(* be given; r is [bucket, count, calls]: the bucket being scanned, #count *)
(* and the arguments fn has been called with so far.                       *)

\* a scan from the front: for (let i = 0; i < bucket.length; i++)
RECURSIVE retainForward(_, _, _)
retainForward(r, i, fn) ==
  IF i > Len(r.bucket) THEN r
  ELSE LET value == r.bucket[i][2]
           key == r.bucket[i][1]
           called == [r EXCEPT !.calls = Append(@, <<value, key>>)]
       IN  IF fn[<<value, key>>]
           THEN retainForward(called, i + 1, fn)
           ELSE retainForward([called EXCEPT !.bucket = Splice(@, i),
                                             !.count = @ - 1], i + 1, fn)

\* a faulty variant: the bucket is scanned front to back while pairs are spliced out
retainBucket_Forward(r, i, fn) == retainForward(r, 1, fn)

\* the inner loop, from position i down: for (let i = bucket.length - 1; i >= 0; i--)
RECURSIVE retainBucket(_, _, _)
retainBucket(r, i, fn) ==
  IF i < 1 THEN r
  ELSE LET value == r.bucket[i][2]
           key == r.bucket[i][1]
           called == [r EXCEPT !.calls = Append(@, <<value, key>>)]
       IN  IF fn[<<value, key>>]
           THEN retainBucket(called, i - 1, fn)
           ELSE retainBucket([called EXCEPT !.bucket = Splice(@, i),
                                            !.count = @ - 1], i - 1, fn)

\* the outer loop, from bucket b on: for (const bucket of this.#buckets)
RECURSIVE retainFrom(_, _, _, _)
retainFrom(m, calls, b, fn) ==
  IF b > Len(m.buckets) THEN [map |-> m, calls |-> calls]
  ELSE LET r == retainBucket([bucket |-> m.buckets[b], count |-> m.count, calls |-> calls],
                             Len(m.buckets[b]), fn)
       IN  retainFrom([buckets |-> [m.buckets EXCEPT ![b] = r.bucket], count |-> r.count],
                      r.calls, b + 1, fn)

\* retain: the map afterwards and the calls of fn made
retain(m, fn) == retainFrom(m, <<>>, 1, fn)

-----------------------------------------------------------------------------
(* drain is a generator function: the call builds the generator and runs   *)
(* nothing of the body; each next() runs the body up to the next yield.    *)

\* a faulty variant: the body forgets this.clear()
drainStart_NoClear(m) == [oldBuckets |-> m.buckets, map |-> m]

\* the body up to the loop: const oldBuckets = [...this.#buckets]; this.clear().
\* clear() gives the map new arrays, so the arrays of oldBuckets are the
\* generator's own from here on
drainStart(m) == [oldBuckets |-> m.buckets, map |-> clear(m)]

\* a faulty variant: the loop goes through the buckets the map has now
drainResume_Live(m, g) == [oldBuckets |-> m.buckets, map |-> m]

\* the body resumed after a yield: the loop reads and empties the arrays of
\* oldBuckets, which the map has not held since clear()
drainResume(m, g) == [oldBuckets |-> g.oldBuckets, map |-> m]

\* the loop, resumed in bucket b with the array iterator of `yield* bucket`
\* at position i, up to the next yield or the end of the body
RECURSIVE drainLoop(_, _, _)
drainLoop(old, b, i) ==
  IF b > Len(old)
  THEN [done |-> TRUE, oldBuckets |-> old, b |-> b, i |-> i, value |-> <<>>]
  ELSE IF i <= Len(old[b])
       THEN [done |-> FALSE, oldBuckets |-> old, b |-> b, i |-> i + 1,
             value |-> old[b][i]]
       ELSE drainLoop([old EXCEPT ![b] = <<>>], b + 1, 1)

-----------------------------------------------------------------------------
(* Entry: a (map, key) pair; every method goes back to the map.            *)

\* a faulty variant: the Entry answers with what the map held when it was made
Entry_get_Snapshot(m, key) == handle.made

Entry_get(m, key) == get(m, key)

Entry_set(m, key, value) == set(m, key, value)

Entry_isOccupied(m, key) == isSome(get(m, key))

\* A callback fn is [val, acts]: val tabulates what it returns over what it can
\* be given, acts is what it does to the map while it runs, a sequence of
\* <<"set", key, value>> and <<"remove", key>> (empty for a pure function).
RECURSIVE Run(_, _, _)
Run(m, acts, i) ==
  IF i > Len(acts) THEN m
  ELSE Run(IF acts[i][1] = "set" THEN set(m, acts[i][2], acts[i][3])
           ELSE remove(m, acts[i][2]).map,
           acts, i + 1)

\* a faulty variant: an absent key is given fn of the largest value
Entry_andModify_Upsert(m, key, fn) ==
  LET o == Entry_get(m, key)
  IN  IF isSome(o)
      THEN [map |-> Entry_set(Run(m, fn.acts, 1), key, fn.val[o[2]]), calls |-> <<o[2]>>]
      ELSE [map |-> Entry_set(Run(m, fn.acts, 1), key, fn.val[MaxVal]), calls |-> <<MaxVal>>]

\* andModify: the map afterwards and the values fn was called with.
\* this.set(fn(value)): get() is read, then fn runs, then set
Entry_andModify(m, key, fn) ==
  LET o == Entry_get(m, key)
  IN  IF isSome(o)
      THEN [map |-> Entry_set(Run(m, fn.acts, 1), key, fn.val[o[2]]), calls |-> <<o[2]>>]
      ELSE [map |-> m, calls |-> <<>>]

Entry_insertEntry(m, key, value) == Entry_set(m, key, value)

Entry_orInsert(m, key, value) ==
  IF isSome(Entry_get(m, key)) THEN m ELSE Entry_set(m, key, value)

\* a faulty variant: the value is set before fn runs
Entry_orInsertWith_SetFirst(m, key, fn) ==
  IF isSome(Entry_get(m, key)) THEN [map |-> m, calls |-> <<>>]
  ELSE [map |-> Run(Entry_set(m, key, fn.val[key]), fn.acts, 1), calls |-> <<key>>]

\* a faulty variant: fn is called before the Entry is looked up
Entry_orInsertWith_Eager(m, key, fn) ==
  IF isSome(Entry_get(m, key)) THEN [map |-> Run(m, fn.acts, 1), calls |-> <<key>>]
  ELSE [map |-> Entry_set(Run(m, fn.acts, 1), key, fn.val[key]), calls |-> <<key>>]

\* orInsertWith: the map afterwards and the keys fn was called with.
\* this.set(fn(this.#key)): get() is read, then fn runs, then set
Entry_orInsertWith(m, key, fn) ==
  IF isSome(Entry_get(m, key)) THEN [map |-> m, calls |-> <<>>]
  ELSE [map |-> Entry_set(Run(m, fn.acts, 1), key, fn.val[key]), calls |-> <<key>>]

\* a faulty variant: the value is read after it was set
Entry_insert_ReadLate(m, key, value) ==
  LET after == Entry_set(m, key, value)
  IN  [map |-> after, ret |-> Entry_get(after, key)]

\* insert: the map afterwards and the old value returned
Entry_insert(m, key, value) ==
  [map |-> Entry_set(m, key, value), ret |-> Entry_get(m, key)]

\* a faulty variant: the value is read after the key was removed
Entry_remove_ReadLate(m, key) ==
  LET after == remove(m, key).map
  IN  [map |-> after, ret |-> Entry_get(after, key)]

Entry_remove(m, key) ==
  LET o == Entry_get(m, key)
  IN  IF isSome(o) THEN [map |-> remove(m, key).map, ret |-> some(o[2])]
      ELSE [map |-> m, ret |-> none]

Entry_removeEntry(m, key) ==
  LET o == Entry_get(m, key)
  IN  IF isSome(o) THEN [map |-> remove(m, key).map, ret |-> some(<<key, o[2]>>)]
      ELSE [map |-> m, ret |-> none]

-----------------------------------------------------------------------------
(* The state machine: one action per public call.                          *)

\* no key: the call takes none
NoKey == 0
void == <<"void">>

\* a call on the map: its name, arguments and result, and the bucket count it found
\* and the size it found; pairs is the array handed to from, calls the arguments
\* the callback was invoked with, in order
Call(op, k, v, n, ret) ==
  [op |-> op, k |-> k, v |-> v, n |-> n, ret |-> ret,
   b |-> Len(map.buckets), s |-> map.count, pairs |-> <<>>, calls |-> <<>>]

\* a constructor call: the constructor's own bucket store has InitialBuckets buckets
Built(op, n) ==
  [op |-> op, k |-> NoKey, v |-> 0, n |-> n, ret |-> void,
   b |-> InitialBuckets, s |-> 0, pairs |-> <<>>, calls |-> <<>>]

Absent == [ k \in AllKeys |-> 0 ]

\* between two calls: the caller has taken the result of the last call
Idle ==
  [op |-> "idle", k |-> NoKey, v |-> 0, n |-> 0, ret |-> void,
   b |-> 0, s |-> 0, pairs |-> <<>>, calls |-> <<>>]

Ready == last = Idle

\* the callbacks handed to andModify, both pure: v => v % MaxVal + 1 and v => MaxVal
Callbacks ==
  { [val |-> [ x \in Vals |-> (x % MaxVal) + 1 ], acts |-> <<>>],
    [val |-> [ x \in Vals |-> MaxVal ], acts |-> <<>>] }

\* the callbacks handed to orInsertWith, pure: key => v
Inserters == { [val |-> [ x \in AllKeys |-> v ], acts |-> <<>>] : v \in Vals }

\* what a callback does to each key of DrainKeySet while it runs
Touches == [ DrainKeySet -> {"none", "set", "remove"} ]

\* the acts of a callback that goes through the keys from k on and calls
\* map.set(key, MaxVal) or map.remove(key) as touch says
RECURSIVE ActsOf(_, _)
ActsOf(touch, k) ==
  IF k > DrainKeys THEN <<>>
  ELSE (IF touch[k] = "set" THEN << <<"set", k, MaxVal>> >>
        ELSE IF touch[k] = "remove" THEN << <<"remove", k>> >>
        ELSE <<>>) \o ActsOf(touch, k + 1)

\* the callbacks handed to andModify that call set and remove on the same
\* map, and return v % MaxVal + 1
ReentrantModifiers ==
  { [val |-> [ x \in Vals |-> (x % MaxVal) + 1 ], acts |-> ActsOf(touch, 1)] :
      touch \in Touches }

\* the callbacks handed to orInsertWith that call set and remove on the same
\* map, and return 1
ReentrantInserters ==
  { [val |-> [ x \in AllKeys |-> 1 ], acts |-> ActsOf(touch, 1)] : touch \in Touches }

\* history: assoc after a callback's acts
RECURSIVE AssocRun(_, _, _)
AssocRun(a, acts, i) ==
  IF i > Len(acts) THEN a
  ELSE AssocRun([a EXCEPT ![acts[i][2]] = IF acts[i][1] = "set" THEN acts[i][3] ELSE 0],
                acts, i + 1)

-----------------------------------------------------------------------------
(* The object-key hashers, getWeakMapHasher and getHybridHasher.  An object *)
(* is a number of Objects; a WeakMap is a function from the objects to the  *)
(* number it holds for each, undefined for an object that is not a key.     *)

Objects == 1..NumObjects

\* what WeakMap.get gives for an object that is not a key; no id is negative
undefined == -1

\* the closure of getWeakMapHasher(): mapCounter and map
NewWeakMapHasher ==
  [kind |-> "weak", counter |-> 0, map |-> [ o \in Objects |-> undefined ],
   tag |-> [ o \in Objects |-> undefined ]]

\* the closure of getHybridHasher(): counter and map; tag[o] is o[HASH_TAG]
NewHybridHasher ==
  [kind |-> "hybrid", counter |-> 0, map |-> [ o \in Objects |-> undefined ],
   tag |-> [ o \in Objects |-> undefined ]]

\* hash of getWeakMapHasher: the closure after the call, and the id returned
WeakMapHasher_hash(h, key) ==
  LET hash_ == h.map[key]
  IN  IF hash_ = undefined
      THEN [h |-> [h EXCEPT !.counter = @ + 1, !.map[key] = h.counter], ret |-> h.counter]
      ELSE [h |-> h, ret |-> hash_]

\* equals of getWeakMapHasher
WeakMapHasher_equals(h, key1, key2) ==
  LET hash1 == h.map[key1]
  IN  IF hash1 = undefined THEN FALSE
      ELSE hash1 = h.map[key2]

isHashTagged(h, input) == h.tag[input] # undefined

\* a hash of getHybridHasher that does not look for the tag first
HybridHasher_hash_NoTagCheck(h, isExtensible, key) ==
  IF isExtensible[key]
  THEN [h |-> [h EXCEPT !.counter = @ + 1, !.tag[key] = h.counter], ret |-> h.counter]
  ELSE IF h.map[key] # undefined
  THEN [h |-> h, ret |-> h.map[key]]
  ELSE [h |-> [h EXCEPT !.counter = @ + 1, !.map[key] = h.counter], ret |-> h.counter]

\* hash of getHybridHasher: the tag if there is one; else a new tag on an
\* extensible object; else the id of the WeakMap, a new one if there is none
HybridHasher_hash(h, isExtensible, key) ==
  IF isHashTagged(h, key)
  THEN [h |-> h, ret |-> h.tag[key]]
  ELSE IF isExtensible[key]
  THEN [h |-> [h EXCEPT !.counter = @ + 1, !.tag[key] = h.counter], ret |-> h.counter]
  ELSE IF h.map[key] # undefined
  THEN [h |-> h, ret |-> h.map[key]]
  ELSE [h |-> [h EXCEPT !.counter = @ + 1, !.map[key] = h.counter], ret |-> h.counter]

\* equals of getHybridHasher
HybridHasher_equals(h, key1, key2) ==
  IF isHashTagged(h, key1)
  THEN IF isHashTagged(h, key2) THEN h.tag[key1] = h.tag[key2] ELSE FALSE
  ELSE IF h.map[key1] # undefined
  THEN h.map[key1] = h.map[key2]
  ELSE FALSE

\* hasher.hash and hasher.equals of the hasher built
Hasher_hash(h, isExtensible, key) ==
  IF h.kind = "weak" THEN WeakMapHasher_hash(h, key)
  ELSE HybridHasher_hash(h, isExtensible, key)

Hasher_equals(h, key1, key2) ==
  IF h.kind = "weak" THEN WeakMapHasher_equals(h, key1, key2)
  ELSE HybridHasher_equals(h, key1, key2)

\* no call on a hasher yet
NoHasherCall == [op |-> "none", a |-> 0, b |-> 0, ret |-> void]

\* the program builds no object-key hasher: the maps above hash primitives
NoHashers ==
  [h |-> [kind |-> "none", counter |-> 0, map |-> <<>>, tag |-> <<>>],
   isExtensible |-> <<>>, given |-> <<>>, call |-> NoHasherCall]

\* no Entry is kept
NoHandle == [key |-> NoKey, made |-> none]

\* drain() has not been called
NoGen ==
  [status |-> "none", oldBuckets |-> <<>>, b |-> 0, i |-> 0,
   atCall |-> <<>>, sAtCall |-> 0, bAtCall |-> 0, out |-> <<>>, asides |-> 0,
   atStart |-> <<>>, asidesAtStart |-> 0]

\* history: one more call on the map was made since drain() was called
Touched(g) == IF g.status = "none" THEN g ELSE [g EXCEPT !.asides = @ + 1]

\* a call on the map leaves the Entry the caller keeps and the generator alone
Aside ==
  /\ UNCHANGED <<handle, hashers>>
  /\ gen' = Touched(gen)

Init ==
  /\ assoc = Absent
  /\ handle = NoHandle
  /\ gen = NoGen
  /\ hashers = NoHashers
  /\ \/ /\ map = NewHashMap
        /\ last = Built("new", 0)
        /\ pristine = TRUE
     \/ \E n \in 0..MaxN :
          /\ map = withCapacity(n)
          /\ last = Built("withCapacity", n)
          /\ pristine = FALSE

DoSet(k, v) ==
  /\ Ready
  /\ Aside
  /\ map' = set(map, k, v)
  /\ last' = Call("set", k, v, 0, void)
  /\ assoc' = [assoc EXCEPT ![k] = v]
  /\ UNCHANGED pristine

DoGet(k) ==
  /\ Ready
  /\ Aside
  /\ last' = Call("get", k, 0, 0, get(map, k))
  /\ UNCHANGED <<map, assoc, pristine>>

DoRemove(k) ==
  /\ Ready
  /\ Aside
  /\ LET r == remove(map, k)
     IN  map' = r.map /\ last' = Call("remove", k, 0, 0, r.ret)
  /\ assoc' = [assoc EXCEPT ![k] = 0]
  /\ pristine' = FALSE

DoClear ==
  /\ Ready
  /\ Aside
  /\ map' = clear(map)
  /\ last' = Call("clear", NoKey, 0, 0, void)
  /\ assoc' = Absent
  /\ pristine' = FALSE

DoReserve(n) ==
  /\ Ready
  /\ Aside
  /\ map' = reserve(map, n)
  /\ last' = Call("reserve", NoKey, 0, n, void)
  /\ pristine' = FALSE
  /\ UNCHANGED assoc

DoShrinkToFit ==
  /\ Ready
  /\ Aside
  /\ map' = shrinkToFit(map)
  /\ last' = Call("shrinkToFit", NoKey, 0, 0, void)
  /\ pristine' = FALSE
  /\ UNCHANGED assoc

DoShrinkTo(n) ==
  /\ Ready
  /\ Aside
  /\ map' = shrinkTo(map, n)
  /\ last' = Call("shrinkTo", NoKey, 0, n, void)
  /\ pristine' = FALSE
  /\ UNCHANGED assoc

DoEntryInsert(k, v) ==
  /\ Ready
  /\ Aside
  /\ LET r == Entry_insert(map, k, v)
     IN  map' = r.map /\ last' = Call("Entry.insert", k, v, 0, r.ret)
  /\ assoc' = [assoc EXCEPT ![k] = v]
  /\ pristine' = FALSE

DoEntryInsertEntry(k, v) ==
  /\ Ready
  /\ Aside
  /\ map' = Entry_insertEntry(map, k, v)
  /\ last' = Call("Entry.insertEntry", k, v, 0, void)
  /\ assoc' = [assoc EXCEPT ![k] = v]
  /\ pristine' = FALSE

DoEntryOrInsert(k, v) ==
  /\ Ready
  /\ Aside
  /\ map' = Entry_orInsert(map, k, v)
  /\ last' = Call("Entry.orInsert", k, v, 0, void)
  /\ assoc' = [assoc EXCEPT ![k] = IF @ = 0 THEN v ELSE @]
  /\ pristine' = FALSE

DoEntryOrInsertWith(k, fn) ==
  /\ Ready
  /\ Aside
  /\ LET r == Entry_orInsertWith(map, k, fn)
     IN  /\ map' = r.map
         /\ last' = [Call("Entry.orInsertWith", k, fn.val[k], 0, void) EXCEPT !.calls = r.calls]
  /\ assoc' = IF assoc[k] # 0 THEN assoc
              ELSE [AssocRun(assoc, fn.acts, 1) EXCEPT ![k] = fn.val[k]]
  /\ pristine' = FALSE

DoEntryAndModify(k, fn) ==
  /\ Ready
  /\ Aside
  /\ LET r == Entry_andModify(map, k, fn)
         v == IF r.calls = <<>> THEN 0 ELSE fn.val[r.calls[1]]
     IN  /\ map' = r.map
         /\ last' = [Call("Entry.andModify", k, v, 0, void) EXCEPT !.calls = r.calls]
  /\ assoc' = IF assoc[k] = 0 THEN assoc
              ELSE [AssocRun(assoc, fn.acts, 1) EXCEPT ![k] = fn.val[assoc[k]]]
  /\ pristine' = FALSE

DoEntryRemove(k) ==
  /\ Ready
  /\ Aside
  /\ LET r == Entry_remove(map, k)
     IN  map' = r.map /\ last' = Call("Entry.remove", k, 0, 0, r.ret)
  /\ assoc' = [assoc EXCEPT ![k] = 0]
  /\ pristine' = FALSE

DoEntryRemoveEntry(k) ==
  /\ Ready
  /\ Aside
  /\ LET r == Entry_removeEntry(map, k)
     IN  map' = r.map /\ last' = Call("Entry.removeEntry", k, 0, 0, r.ret)
  /\ assoc' = [assoc EXCEPT ![k] = 0]
  /\ pristine' = FALSE

\* const e = map.entry(k): the caller keeps the Entry; entry looks nothing up
DoEntry(k) ==
  /\ Ready
  /\ handle' = [key |-> k, made |-> get(map, k)]
  /\ last' = Call("entry", k, 0, 0, void)
  /\ UNCHANGED <<map, assoc, pristine, gen, hashers>>

\* e.get() on the Entry kept
DoKeptGet ==
  /\ Ready
  /\ Aside
  /\ handle # NoHandle
  /\ last' = Call("kept.get", handle.key, 0, 0, Entry_get(map, handle.key))
  /\ UNCHANGED <<map, assoc, pristine>>

\* e.isOccupied() on the Entry kept
DoKeptIsOccupied ==
  /\ Ready
  /\ Aside
  /\ handle # NoHandle
  /\ last' = Call("kept.isOccupied", handle.key, 0, 0, Entry_isOccupied(map, handle.key))
  /\ UNCHANGED <<map, assoc, pristine>>

\* the predicates handed to retain, none of which touches the map:
\* (v) => v % 2 === 1, (v, k) => typeof k === "string", () => false
Predicates ==
  << [ p \in Vals \X AllKeys |-> p[1] % 2 = 1 ],
     [ p \in Vals \X AllKeys |-> KeyList[p[2]].t = "string" ],
     [ p \in Vals \X AllKeys |-> FALSE ] >>

\* retain(Predicates[n])
DoRetain(n) ==
  /\ Ready
  /\ Aside
  /\ LET fn == Predicates[n]
         r == retain(map, fn)
     IN  /\ map' = r.map
         /\ last' = [Call("retain", NoKey, 0, n, void) EXCEPT !.calls = r.calls]
         /\ assoc' = [ k \in AllKeys |->
                         IF assoc[k] # 0 /\ fn[<<assoc[k], k>>] THEN assoc[k] ELSE 0 ]
  /\ pristine' = FALSE

\* history for from: the value of the last pair of the array with key k, 0 if none
LastWrite(fromArray, k) ==
  LET at == { i \in 1..Len(fromArray) : fromArray[i][1] = k }
  IN  IF at = {} THEN 0
      ELSE fromArray[CHOOSE i \in at : \A j \in at : j <= i][2]

\* the arrays of pairs handed to from
PairArrays == UNION { [ 1..n -> Keys \X Vals ] : n \in 0..MaxPairs }

\* the program starts with HashMap.from(fromArray)
InitFrom ==
  \E fromArray \in PairArrays :
    /\ map = from(fromArray)
    /\ last = [Built("from", Len(fromArray)) EXCEPT !.pairs = fromArray]
    /\ assoc = [ k \in AllKeys |-> LastWrite(fromArray, k) ]
    /\ pristine = FALSE
    /\ handle = NoHandle
    /\ gen = NoGen
    /\ hashers = NoHashers

\* map = HashMap.from([...map]): the map is rebuilt from its own iteration
DoFromEntries ==
  /\ Ready
  /\ LET fromArray == Iterate(map)
     IN  /\ map' = from(fromArray)
         /\ last' = [Call("from", NoKey, 0, Len(fromArray), void) EXCEPT !.pairs = fromArray]
         /\ assoc' = [ k \in AllKeys |-> LastWrite(fromArray, k) ]
  /\ pristine' = FALSE
  /\ UNCHANGED <<handle, gen, hashers>>

\* drain(): the generator is built, suspended at the start of the body.
\* History: atCall, sAtCall, bAtCall are the iteration, size() and buckets()
\* of the map at this call, out the pairs the generator has yielded, atStart
\* and asidesAtStart the iteration of the map and asides at the first next()
DoDrain ==
  /\ Ready
  /\ gen' = [status |-> "suspendedStart", oldBuckets |-> <<>>, b |-> 0, i |-> 0,
             atCall |-> Iterate(map), sAtCall |-> size(map),
             bAtCall |-> buckets(map), out |-> <<>>, asides |-> 0,
             atStart |-> <<>>, asidesAtStart |-> 0]
  /\ last' = Call("drain", NoKey, 0, 0, void)
  /\ UNCHANGED <<map, assoc, pristine, handle, hashers>>

\* next() on the generator: from the start the body first takes oldBuckets and
\* clears the map; then the loop runs to its next yield (present(pair)) or to
\* the end (absent: done)
DoNext ==
  /\ Ready
  /\ gen.status # "none"
  /\ LET fromStart == gen.status = "suspendedStart"
         started == IF fromStart THEN drainStart(map)
                    ELSE drainResume(map, gen)
         r == IF fromStart THEN drainLoop(started.oldBuckets, 1, 1)
              ELSE drainLoop(started.oldBuckets, gen.b, gen.i)
     IN  /\ map' = started.map
         /\ assoc' = IF fromStart THEN Absent ELSE assoc
         /\ pristine' = IF fromStart THEN FALSE ELSE pristine
         /\ gen' = [gen EXCEPT !.status = IF r.done THEN "completed" ELSE "suspendedYield",
                               !.oldBuckets = r.oldBuckets,
                               !.b = r.b,
                               !.i = r.i,
                               !.out = IF r.done THEN @ ELSE Append(@, r.value),
                               !.atStart = IF fromStart THEN Iterate(map) ELSE @,
                               !.asidesAtStart = IF fromStart THEN gen.asides ELSE @]
         /\ last' = Call("next", NoKey, 0, 0, IF r.done THEN none ELSE some(r.value))
  /\ UNCHANGED <<handle, hashers>>

\* the call has returned and its result is taken: the next call can start
Return ==
  /\ ~Ready
  /\ last' = Idle
  /\ UNCHANGED <<map, assoc, pristine, handle, gen, hashers>>

Next ==
  \/ Return
  \/ \E k \in Keys, v \in Vals : DoSet(k, v)
  \/ \E k \in Keys : DoGet(k)
  \/ \E k \in Keys : DoRemove(k)
  \/ DoClear
  \/ \E n \in 0..MaxN : DoReserve(n)
  \/ DoShrinkToFit
  \/ \E n \in 0..MaxN : DoShrinkTo(n)
  \/ \E k \in Keys, v \in Vals : DoEntryInsert(k, v)
  \/ \E k \in Keys, v \in Vals : DoEntryInsertEntry(k, v)
  \/ \E k \in Keys, v \in Vals : DoEntryOrInsert(k, v)
  \/ \E k \in Keys, fn \in Inserters : DoEntryOrInsertWith(k, fn)
  \/ \E k \in Keys, fn \in Callbacks : DoEntryAndModify(k, fn)
  \/ \E k \in Keys : DoEntryRemove(k)
  \/ \E k \in Keys : DoEntryRemoveEntry(k)

Spec == Init /\ [][Next]_vars

\* growth from small maps: many keys, set and remove only
NextGrow ==
  \/ Return
  \/ \E k \in GrowKeySet : DoSet(k, 1)
  \/ \E k \in GrowKeySet : DoRemove(k)

SpecGrow == Init /\ [][NextGrow]_vars

\* maps built by from, changed by set and remove, and rebuilt by from
NextFrom ==
  \/ Return
  \/ \E k \in Keys, v \in Vals : DoSet(k, v)
  \/ \E k \in Keys : DoRemove(k)
  \/ DoFromEntries

SpecFrom == InitFrom /\ [][NextFrom]_vars

\* the program starts with new HashMap() or withCapacity(n), n small or huge
InitHuge ==
  /\ assoc = Absent
  /\ handle = NoHandle
  /\ gen = NoGen
  /\ hashers = NoHashers
  /\ \/ /\ map = NewHashMap
        /\ last = Built("new", 0)
        /\ pristine = TRUE
     \/ \E n \in Capacities :
          /\ map = withCapacity(n)
          /\ last = Built("withCapacity", n)
          /\ pristine = FALSE

\* sizing calls with small and huge arguments; set as long as there is a bucket
\* to put a pair in and #count is below DrainKeys (a resize that throws loses
\* the pairs and keeps #count, which could then grow without end)
NextHuge ==
  \/ Return
  \/ \E k \in DrainKeySet : buckets(map) > 0 /\ size(map) < DrainKeys /\ DoSet(k, 1)
  \/ \E n \in Capacities : DoReserve(n)
  \/ DoShrinkToFit
  \/ \E n \in Capacities : DoShrinkTo(n)

SpecHuge == InitHuge /\ [][NextHuge]_vars

\* an Entry is made and kept, the map is changed, the Entry is asked
NextEntry ==
  \/ Return
  \/ \E k \in Keys, v \in Vals : DoSet(k, v)
  \/ \E k \in Keys : DoRemove(k)
  \/ DoClear
  \/ DoShrinkToFit
  \/ \E k \in Keys : DoEntry(k)
  \/ DoKeptGet
  \/ DoKeptIsOccupied

SpecEntry == Init /\ [][NextEntry]_vars

\* maps filled by set and filtered by retain
NextRetain ==
  \/ Return
  \/ \E k \in Keys, v \in Vals : DoSet(k, v)
  \/ \E n \in 1..Len(Predicates) : DoRetain(n)

SpecRetain == Init /\ [][NextRetain]_vars

\* one drain, the steps of its generator, and sets before and between them
NextDrain ==
  \/ Return
  \/ \E k \in DrainKeySet, v \in Vals : gen.asides < MaxAsides /\ DoSet(k, v)
  \/ gen.status = "none" /\ DoDrain
  \/ DoNext

SpecDrain == Init /\ [][NextDrain]_vars

\* Entry calls that call their callback (andModify of a present key,
\* orInsertWith of an absent key), which calls set and remove on the map of
\* the Entry
NextReentrant ==
  \/ Return
  \/ \E k \in DrainKeySet :
       has(map, k) /\ \E fn \in ReentrantModifiers : DoEntryAndModify(k, fn)
  \/ \E k \in DrainKeySet :
       ~has(map, k) /\ \E fn \in ReentrantInserters : DoEntryOrInsertWith(k, fn)

SpecReentrant == Init /\ [][NextReentrant]_vars

-----------------------------------------------------------------------------
(* The object-key hashers on their own: hash, equals and Object.freeze.     *)

\* the program starts with getWeakMapHasher() or getHybridHasher() and
\* NumObjects objects just made, all extensible.
\* History: given[o] is the set of the ids hash(o) has returned
InitHasher ==
  /\ map = NewHashMap
  /\ last = Built("new", 0)
  /\ assoc = Absent
  /\ pristine = TRUE
  /\ handle = NoHandle
  /\ gen = NoGen
  /\ \E h \in {NewWeakMapHasher, NewHybridHasher} :
       hashers = [h |-> h,
                  isExtensible |-> [ o \in Objects |-> TRUE ],
                  given |-> [ o \in Objects |-> {} ],
                  call |-> NoHasherCall]

\* hasher.hash(key)
DoHash(key) ==
  /\ LET r == Hasher_hash(hashers.h, hashers.isExtensible, key)
     IN  hashers' = [hashers EXCEPT !.h = r.h,
                                    !.given[key] = @ \cup {r.ret},
                                    !.call = [op |-> "hash", a |-> key, b |-> 0, ret |-> r.ret]]
  /\ UNCHANGED <<map, last, assoc, pristine, handle, gen>>

\* hasher.equals(key1, key2)
DoEquals(key1, key2) ==
  /\ hashers' = [hashers EXCEPT !.call = [op |-> "equals", a |-> key1, b |-> key2,
                                          ret |-> Hasher_equals(hashers.h, key1, key2)]]
  /\ UNCHANGED <<map, last, assoc, pristine, handle, gen>>

\* Object.freeze(o) (or seal, or preventExtensions): o is no longer extensible
DoFreeze(o) ==
  /\ hashers.isExtensible[o]
  /\ hashers' = [hashers EXCEPT !.isExtensible[o] = FALSE, !.call = NoHasherCall]
  /\ UNCHANGED <<map, last, assoc, pristine, handle, gen>>

NextHasher ==
  \/ \E key \in Objects : DoHash(key)
  \/ \E key1 \in Objects, key2 \in Objects : DoEquals(key1, key2)
  \/ \E o \in Objects : DoFreeze(o)

SpecHasher == InitHasher /\ [][NextHasher]_vars


-----------------------------------------------------------------------------
(* What the properties below speak of.                                     *)

\* the (key, value) pairs a full iteration yields, as a set
PairSet(m) == LET pairs == Iterate(m) IN { pairs[i] : i \in 1..Len(pairs) }

\* what get(k) has to return according to the history of calls
Expected(k) == IF assoc[k] = 0 THEN none ELSE some(assoc[k])

\* the least c with c * loadThreshold >= n, i.e. ceil(n / loadThreshold)
LeastBucketsFor(n) ==
  CHOOSE c \in 0..(2 * n) :
    /\ c * LoadNum >= n * LoadDen
    /\ \A d \in 0..(2 * n) : d * LoadNum >= n * LoadDen => c <= d

Pow2s == { 2 ^ i : i \in 0..30 }

\* x rounded up to a power of two, at least 1
SmallestPow2AtLeast(x) ==
  CHOOSE p \in Pow2s : p >= x /\ \A q \in Pow2s : q >= x => p <= q

\* the calls that end in HashMap.set
SetCalls ==
  { "set", "Entry.insert", "Entry.insertEntry", "Entry.orInsert",
    "Entry.orInsertWith", "Entry.andModify" }

\* the bucket of m that holds key k holds another pair too
Collides(m, k) == Len(m.buckets[getBucket(m, k)]) >= 2

\* the places <<bucket, position>> of m where key k is stored
Places(m, k) ==
  UNION { { <<b, i>> : i \in { j \in 1..Len(m.buckets[b]) : m.buckets[b][j][1] = k } } :
          b \in 1..Len(m.buckets) }

\* |h| modulo n for a signed 32-bit h; Math.abs(-2^31) is 2^31, a multiple of
\* every power of two up to 2^31
AbsMod(h, n) ==
  IF h = MinInt32 THEN 0 ELSE (IF h < 0 THEN -h ELSE h) % n

\* hashes the string hash can return: the ends of the signed 32-bit range,
\* values around 0, and the hashes of the keys of the model
HashSamples ==
  { MinInt32, MinInt32 + 1, -65537, -9, -8, -7, -2, -1, 0, 1, 2, 7, 8, 9, 65537,
    2147483646, 2147483647 } \cup { hash(k) : k \in AllKeys }

\* Math.abs(h) & (n - 1) is |h| modulo n for the sample hashes and the bucket
\* counts 1, 2, 4, ..., 1024
AbsAndIsAbsMod ==
  \A h \in HashSamples, e \in 0..10 : AbsAnd(h, 2 ^ e - 1) = AbsMod(h, 2 ^ e)

\* the pairs of a bucket whose key is not k, in the order they have in the bucket
Without(bucket, k) == SelectSeq(bucket, LAMBDA p : p[1] # k)

-----------------------------------------------------------------------------
(* C1: after any sequence of set, remove, clear, reserve, shrinkTo,        *)
(* shrinkToFit and Entry calls, get(k) returns present(v) with v the value *)
(* most recently set for k if k was set and not removed since, and absent  *)
(* otherwise; this includes the value a get call actually returned.        *)
C1_GetReturnsLastSet ==
  /\ \A k \in AllKeys : get(map, k) = Expected(k)
  /\ last.op = "get" => last.ret = Expected(last.k)

\* a get of an overwritten key that shares its bucket with another key
C1_Witness ==
  /\ last.op = "get"
  /\ last.ret = some(2)
  /\ Collides(map, last.k)
  /\ size(map) = 3
  /\ buckets(map) = 4

(* C2: in every reachable state size() is the number of pairs stored in    *)
(* the buckets, which is the number of distinct keys set and not removed   *)
(* since; and no set of a key that is present changes size().              *)
C2_SizeIsPairCount ==
  /\ size(map) = Len(Iterate(map))
  /\ size(map) = Cardinality({ p[1] : p \in PairSet(map) })
  /\ size(map) = Cardinality({ k \in AllKeys : assoc[k] # 0 })
  /\ \A k \in Keys, v \in Vals : has(map, k) => size(set(map, k, v)) = size(map)

\* a remove took a pair out of the map, two pairs that share a bucket are left
C2_Witness ==
  /\ last.op = "remove"
  /\ isSome(last.ret)
  /\ size(map) = 2
  /\ \E k \in Keys : has(map, k) /\ Collides(map, k)

(* C3: with loadThreshold 0.75, right after any set capacity() >= size()   *)
(* and the map is not over its load threshold: one doubling (or none) was  *)
(* enough.                                                                 *)
C3_CapacityCoversSizeAfterSet ==
  last.op \in SetCalls =>
    /\ capacity(map) >= size(map)
    /\ size(map) * LoadDen <= LoadNum * buckets(map)
    /\ buckets(map) \in { last.b, 2 * last.b }

\* the first set into a one-bucket map doubled it
C3_Witness ==
  /\ last.op = "set"
  /\ last.b = 1
  /\ buckets(map) = 2
  /\ size(map) = 1

(* C4: every call that changes the bucket count (the growth inside set,    *)
(* reserve, shrinkToFit, shrinkTo, withCapacity) leaves the set of pairs a *)
(* full iteration yields, and size(), as they were before the resize: for  *)
(* the growth inside set, as they were once the new pair was pushed.       *)
C4_ResizeKeepsContent ==
  /\ [](last.op = "withCapacity" => Iterate(map) = <<>> /\ size(map) = 0)
  /\ [][ (\/ buckets(map') # buckets(map)
          \/ last'.op \in {"reserve", "shrinkToFit", "shrinkTo"}) =>
           IF last'.op \in SetCalls
           THEN /\ PairSet(map') = PairSet(map) \cup { <<last'.k, last'.v>> }
                /\ size(map') = size(map) + 1
           ELSE /\ PairSet(map') = PairSet(map)
                /\ size(map') = size(map) ]_vars

\* a reserve moved three pairs into a larger store
C4_Witness ==
  /\ last.op = "reserve"
  /\ buckets(map) > last.b
  /\ size(map) = 3

(* C5: a set of a new key doubles the bucket count exactly when, with the  *)
(* new pair counted, entryCount / bucketCount > 0.75, and leaves it alone  *)
(* otherwise; a set of a present key never changes the bucket count.  A    *)
(* fresh default map has 8 buckets after 1 to 6 distinct keys and 16 after *)
(* the 7th.                                                                *)
C5_GrowthTrigger ==
  /\ [](pristine =>
          /\ (size(map) <= 6 => buckets(map) = 8)
          /\ (size(map) = 7 => buckets(map) = 16))
  /\ [][ last'.op = "set" =>
           IF has(map, last'.k) THEN buckets(map') = buckets(map)
           ELSE IF (size(map) + 1) * LoadDen > LoadNum * buckets(map)
                THEN buckets(map') = 2 * buckets(map)
                ELSE buckets(map') = buckets(map) ]_vars

\* the 7th distinct key of a fresh default map
C5_Witness ==
  /\ pristine
  /\ last.op = "set"
  /\ size(map) = 7
  /\ last.b = 8
  /\ buckets(map) = 16

(* C6: for every n >= 0, withCapacity(n) gives an empty map with           *)
(* capacity() >= n.                                                        *)
C6_WithCapacityHoldsN ==
  last.op = "withCapacity" => size(map) = 0 /\ capacity(map) >= last.n

(* C7: after reserve(n), capacity() >= size() + n, and the bucket count is *)
(* not smaller than before the call.                                       *)
C7_ReserveMakesRoom ==
  last.op = "reserve" =>
    /\ capacity(map) >= size(map) + last.n
    /\ buckets(map) >= last.b

\* a reserve on a map with entries grew the store
C7_Witness ==
  /\ last.op = "reserve"
  /\ last.n >= 1
  /\ size(map) >= 2
  /\ buckets(map) > last.b

(* C8: after shrinkToFit(), buckets() is ceil(size() / loadThreshold)      *)
(* rounded up to a power of two, at least 1.                               *)
C8_ShrinkToFitIsTight ==
  last.op = "shrinkToFit" =>
    buckets(map) = SmallestPow2AtLeast(LeastBucketsFor(size(map)))

\* a shrinkToFit on a map with entries shrank the store
C8_Witness ==
  /\ last.op = "shrinkToFit"
  /\ size(map) >= 2
  /\ buckets(map) < last.b

(* C9, as claimed: shrinkTo(c) shrinks to ceil(c / loadThreshold) (rounded *)
(* up to a power of two) if that target is below the bucket count and at   *)
(* least ceil(size() / loadThreshold), and in every other case ends with   *)
(* the bucket count shrinkToFit() would give from the same state.          *)
C9_ShrinkToElseFits ==
  [][ last'.op = "shrinkTo" =>
        LET target == LeastBucketsFor(last'.n)
            needed == LeastBucketsFor(size(map))
        IN  IF target < buckets(map) /\ target >= needed
            THEN buckets(map') = SmallestPow2AtLeast(target)
            ELSE buckets(map') = buckets(shrinkToFit(map)) ]_vars

(* C9, amended: as claimed when the target is below the bucket count and   *)
(* large enough, and when the target is too small for the contents (the    *)
(* shrinkToFit() result); but a target that is large enough and not below  *)
(* the bucket count leaves the bucket count as it is.                      *)
C9_ShrinkToThreeWay ==
  [][ last'.op = "shrinkTo" =>
        LET target == LeastBucketsFor(last'.n)
            needed == LeastBucketsFor(size(map))
        IN  IF target < buckets(map) /\ target >= needed
            THEN buckets(map') = SmallestPow2AtLeast(target)
            ELSE IF target < needed
                 THEN buckets(map') = buckets(shrinkToFit(map))
                 ELSE buckets(map') = buckets(map) ]_vars

\* a shrinkTo whose target is not below the bucket count, on a map that
\* shrinkToFit() would have shrunk
C9_Witness ==
  /\ last.op = "shrinkTo"
  /\ LeastBucketsFor(last.n) >= last.b
  /\ buckets(map) = last.b
  /\ buckets(map) > SmallestPow2AtLeast(LeastBucketsFor(size(map)))

(* C10: shrinkTo(c), for any c including 0 and values below size(), never  *)
(* increases the bucket count and never shrinks below what the contents    *)
(* need: afterwards capacity() >= size() and every key gives what it gave. *)
C10_ShrinkToIsSafe ==
  [][ last'.op = "shrinkTo" =>
        /\ buckets(map') <= buckets(map)
        /\ capacity(map') >= size(map')
        /\ size(map') = size(map)
        /\ \A k \in AllKeys : get(map', k) = get(map, k) ]_vars

\* shrinkTo(c) with c below size() shrank the store of a map with three entries
C10_Witness ==
  /\ last.op = "shrinkTo"
  /\ last.n < size(map)
  /\ size(map) = 3
  /\ buckets(map) < last.b

(* C11: when the generator of drain() is run to its end and no other call  *)
(* was made on the map since drain() was called, it has yielded every pair *)
(* stored at the call exactly once, as many as size() was at the call, and *)
(* the map has size() 0, every key absent, and the bucket count it had.    *)
C11_DrainYieldsAllAndEmpties ==
  (gen.status = "completed" /\ gen.asides = 0) =>
    /\ Len(gen.out) = gen.sAtCall
    /\ { gen.out[i] : i \in 1..Len(gen.out) } =
         { gen.atCall[i] : i \in 1..Len(gen.atCall) }
    /\ \A i, j \in 1..Len(gen.out) : gen.out[i] = gen.out[j] => i = j
    /\ size(map) = 0
    /\ \A k \in AllKeys : get(map, k) = none
    /\ Iterate(map) = <<>>
    /\ buckets(map) = gen.bAtCall

\* a map of three pairs in four buckets, two of them in one bucket, drained to the end
C11_Witness ==
  /\ gen.status = "completed"
  /\ gen.asides = 0
  /\ Len(gen.out) = 3
  /\ gen.bAtCall = 4
  /\ last.op = "next"

(* C12: drain() clears the map as of the call.  Right after drain() has    *)
(* returned its generator, before any element is requested and with no     *)
(* other call made, size() is 0 and every key is absent; and whatever calls *)
(* follow, the pairs the generator yields are pairs stored when drain()    *)
(* was called, all of them once it is exhausted.                           *)
C12_DrainClearsAtCall ==
  LET stored == { gen.atCall[i] : i \in 1..Len(gen.atCall) }
      yielded == { gen.out[i] : i \in 1..Len(gen.out) }
  IN  /\ (gen.status = "suspendedStart" /\ gen.asides = 0) =>
           /\ size(map) = 0
           /\ \A k \in AllKeys : get(map, k) = none
      /\ yielded \subseteq stored
      /\ gen.status = "completed" => yielded = stored

(* C13: remove(k) of a present key returns present(v) with the value       *)
(* stored; afterwards get(k) is absent, size() is one less, the bucket     *)
(* count is the same, every other key gives what it gave, the bucket of k  *)
(* holds its other pairs in the order they had, and every other bucket is  *)
(* as it was.                                                              *)
C13_RemovePresent ==
  [][ (last'.op = "remove" /\ has(map, last'.k)) =>
        LET k == last'.k
            b == getBucket(map, k)
        IN  /\ last'.ret = get(map, k)
            /\ isSome(last'.ret)
            /\ get(map', k) = none
            /\ size(map') = size(map) - 1
            /\ buckets(map') = buckets(map)
            /\ \A j \in AllKeys \ {k} : get(map', j) = get(map, j)
            /\ map'.buckets[b] = Without(map.buckets[b], k)
            /\ \A c \in (1..buckets(map)) \ {b} : map'.buckets[c] = map.buckets[c] ]_vars

\* a remove took one of the three pairs of a bucket
C13_Witness ==
  /\ last.op = "remove"
  /\ isSome(last.ret)
  /\ last.s = 3
  /\ Len(map.buckets[getBucket(map, last.k)]) = 2

(* C14: remove(k) of a key that is not in the map returns absent and       *)
(* leaves the map as it was: size(), buckets(), get of every key and the   *)
(* buckets themselves, also when the bucket k hashes to holds other pairs. *)
C14_RemoveAbsent ==
  [][ (last'.op = "remove" /\ ~has(map, last'.k)) =>
        /\ last'.ret = none
        /\ size(map') = size(map)
        /\ buckets(map') = buckets(map)
        /\ \A k \in AllKeys : get(map', k) = get(map, k)
        /\ map' = map ]_vars

\* a remove of an absent key whose bucket holds a pair of another key
C14_Witness ==
  /\ last.op = "remove"
  /\ last.ret = none
  /\ size(map) >= 2
  /\ Len(map.buckets[getBucket(map, last.k)]) >= 1

(* C15: the map HashMap.from(pairs) gives has as size() the number of      *)
(* distinct keys of pairs, and get(k) is the value of the last pair with   *)
(* key k (absent if there is none); and a map rebuilt by from over its own *)
(* full iteration gives for every key what the map gave, with the same     *)
(* size().                                                                 *)
C15_FromLastWriteWins ==
  /\ [](last.op = "from" =>
          /\ size(map) = Cardinality({ last.pairs[i][1] : i \in 1..Len(last.pairs) })
          /\ \A k \in AllKeys :
               get(map, k) = IF LastWrite(last.pairs, k) = 0 THEN none
                             ELSE some(LastWrite(last.pairs, k)))
  /\ [][ (last'.op = "from" /\ last'.pairs = Iterate(map)) =>
           /\ \A k \in AllKeys : get(map', k) = get(map, k)
           /\ size(map') = size(map) ]_vars

\* from over three pairs, the first and the last with the same key and different values
C15_Witness ==
  /\ last.op = "from"
  /\ Len(last.pairs) = 3
  /\ last.pairs[1][1] = last.pairs[3][1]
  /\ last.pairs[1][2] # last.pairs[3][2]
  /\ size(map) = 2

(* C16: right after clear(), size() is 0, every key is absent, the full    *)
(* iteration is empty, and buckets() and capacity() are what they were     *)
(* before the call.                                                        *)
C16_ClearKeepsBuckets ==
  /\ [](last.op = "clear" =>
          /\ size(map) = 0
          /\ \A k \in AllKeys : get(map, k) = none /\ ~has(map, k)
          /\ Iterate(map) = <<>>
          /\ buckets(map) = last.b)
  /\ [][ last'.op = "clear" =>
           /\ buckets(map') = buckets(map)
           /\ capacity(map') = capacity(map) ]_vars

\* a clear of a map of three pairs in four buckets
C16_Witness ==
  /\ last.op = "clear"
  /\ last.s = 3
  /\ last.b = 4

C18_EntryIsLive ==
  /\ last.op = "kept.get" =>
       /\ last.ret = get(map, last.k)
       /\ last.ret = Expected(last.k)
  /\ last.op = "kept.isOccupied" =>
       /\ last.ret = has(map, last.k)
       /\ last.ret = (assoc[last.k] # 0)

\* the Entry was made when its key held one value and, asked later in a map
\* whose bucket store is not of the constructor's size, gives another value
C18_Witness ==
  /\ last.op = "kept.get"
  /\ isSome(handle.made)
  /\ isSome(last.ret)
  /\ last.ret # handle.made
  /\ buckets(map) # InitialBuckets

(* C19: orInsert(value) and orInsertWith(fn) on a present key leave the    *)
(* map as it was (value and size() unchanged) and fn is not called; on an  *)
(* absent key the key then holds value, respectively what fn returned,     *)
(* size() is one more, every other key gives what it gave, and fn was      *)
(* called once, with the key.                                              *)
C19_OrInsertOnlyWhenAbsent ==
  [][ last'.op \in {"Entry.orInsert", "Entry.orInsertWith"} =>
        LET k == last'.k
        IN  IF has(map, k)
            THEN /\ map' = map
                 /\ get(map', k) = get(map, k)
                 /\ size(map') = size(map)
                 /\ last'.calls = <<>>
            ELSE /\ get(map', k) = some(last'.v)
                 /\ size(map') = size(map) + 1
                 /\ \A j \in AllKeys \ {k} : get(map', j) = get(map, j)
                 /\ last'.op = "Entry.orInsertWith" => last'.calls = <<k>> ]_vars

\* orInsertWith on a present key whose value is not the one fn would return
C19_Witness ==
  /\ last.op = "Entry.orInsertWith"
  /\ last.calls = <<>>
  /\ isSome(get(map, last.k))
  /\ get(map, last.k) # some(last.v)
  /\ size(map) = last.s
  /\ Collides(map, last.k)

(* C20: Entry.insert(value) returns what get(key) gave right before the    *)
(* call (present(old) or absent); afterwards get(key) is present(value),   *)
(* every other key gives what it gave, and size() is one more if the key   *)
(* was absent and the same if it was present.                              *)
C20_InsertReturnsOld ==
  [][ last'.op = "Entry.insert" =>
        LET k == last'.k
        IN  /\ last'.ret = get(map, k)
            /\ get(map', k) = some(last'.v)
            /\ \A j \in AllKeys \ {k} : get(map', j) = get(map, j)
            /\ size(map') = IF has(map, k) THEN size(map) ELSE size(map) + 1 ]_vars

\* an insert over a present key with another value, in a bucket with another pair
C20_Witness ==
  /\ last.op = "Entry.insert"
  /\ isSome(last.ret)
  /\ last.ret # some(last.v)
  /\ get(map, last.k) = some(last.v)
  /\ size(map) = last.s
  /\ Collides(map, last.k)

(* C21: andModify(fn) with a pure fn, on a present key, calls fn once with *)
(* the stored value and stores what fn returned; on an absent key it does  *)
(* not call fn and leaves the map as it was, the key absent.  Either way   *)
(* size(), the bucket count and every other key's value are unchanged.     *)
C21_AndModifyOnlyWhenPresent ==
  [][ last'.op = "Entry.andModify" =>
        LET k == last'.k
        IN  /\ IF has(map, k)
               THEN /\ some(last'.calls[1]) = get(map, k)
                    /\ Len(last'.calls) = 1
                    /\ get(map', k) = some(last'.v)
               ELSE /\ last'.calls = <<>>
                    /\ get(map', k) = none
                    /\ map' = map
            /\ size(map') = size(map)
            /\ buckets(map') = buckets(map)
            /\ \A j \in AllKeys \ {k} : get(map', j) = get(map, j) ]_vars

\* andModify changed the value of a key that shares its bucket with another key
C21_Witness ==
  /\ last.op = "Entry.andModify"
  /\ Len(last.calls) = 1
  /\ last.calls[1] # last.v
  /\ get(map, last.k) = some(last.v)
  /\ Collides(map, last.k)

(* C22: Entry.remove() and Entry.removeEntry() on an absent key return     *)
(* absent and leave the map as it was; on a present key they return        *)
(* present(old value), respectively present(<<key, old value>>), the key   *)
(* is absent afterwards, size() is one less, and every other key gives     *)
(* what it gave.                                                           *)
C22_EntryRemove ==
  [][ last'.op \in {"Entry.remove", "Entry.removeEntry"} =>
        LET k == last'.k
            old == get(map, k)
        IN  IF has(map, k)
            THEN /\ last'.ret = IF last'.op = "Entry.remove" THEN old
                                ELSE some(<<k, old[2]>>)
                 /\ get(map', k) = none
                 /\ size(map') = size(map) - 1
                 /\ buckets(map') = buckets(map)
                 /\ \A j \in AllKeys \ {k} : get(map', j) = get(map, j)
            ELSE /\ last'.ret = none
                 /\ size(map') = size(map)
                 /\ \A j \in AllKeys : get(map', j) = get(map, j)
                 /\ map' = map ]_vars

\* Entry.remove() took a key out of a bucket that still holds another pair
C22_Witness ==
  /\ last.op = "Entry.remove"
  /\ isSome(last.ret)
  /\ size(map) = last.s - 1
  /\ Len(map.buckets[getBucket(map, last.k)]) >= 1
  /\ size(map) >= 2

(* C23: in every reachable state, whatever the arguments of withCapacity,  *)
(* reserve and shrinkTo were, buckets() is a power of two and at least 1;  *)
(* and it changes only in the calls that resize (reserve, shrinkToFit,     *)
(* shrinkTo, and the growth inside set).                                   *)
C23_BucketsPowerOfTwo ==
  /\ [](buckets(map) \in Pow2s)
  /\ [][ buckets(map') # buckets(map) =>
           last'.op \in {"reserve", "shrinkToFit", "shrinkTo"} \cup SetCalls ]_vars

(* C24, as claimed: in every reachable state every key present in the map *)
(* is stored at exactly one place, and the (0-based) index of its bucket   *)
(* is hash(key) mod bucketCount, for positive and negative hashes alike.   *)
C24_BucketIsHashMod ==
  \A k \in AllKeys :
    has(map, k) =>
      /\ Cardinality(Places(map, k)) = 1
      /\ \A bi \in Places(map, k) : bi[1] - 1 = hash(k) % buckets(map)

(* C24, amended: in every reachable state every key present in the map is *)
(* stored at exactly one place, and the (0-based) index of its bucket is   *)
(* |hash(key)| mod bucketCount (Math.abs(hash) & (bucketCount - 1)): for a *)
(* negative hash this is the residue of the absolute value, not of the     *)
(* hash.  The index getBucket computes is that residue for every signed    *)
(* 32-bit hash and every power-of-two bucket count.                        *)
C24_BucketIsAbsHashMod ==
  /\ \A k \in AllKeys :
       has(map, k) =>
         /\ Cardinality(Places(map, k)) = 1
         /\ \A bi \in Places(map, k) : bi[1] - 1 = AbsMod(hash(k), buckets(map))
  /\ \A k \in AllKeys : getBucket(map, k) - 1 = AbsMod(hash(k), buckets(map))
  /\ AbsAndIsAbsMod

\* the key "a", whose hash is negative, is stored in a bucket that is not the
\* one hash mod bucketCount names
C24_Witness ==
  /\ \E k \in Keys :
       /\ has(map, k)
       /\ hash(k) < 0
       /\ hash(k) % buckets(map) # AbsMod(hash(k), buckets(map))
  /\ size(map) >= 3
  /\ last.op = "set"

\* C25: with either object-key hasher, after any calls of hash and equals and
\* any freezing of objects (before or after they were hashed): hash has
\* returned at most one id for each object, no id for two objects, and
\* equals(a, b) is true exactly when a and b are the same object and hash has
\* been given it; so is the equals call that has just returned.
C25_ObjectHashers ==
  /\ \A o \in Objects : Cardinality(hashers.given[o]) <= 1
  /\ \A a \in Objects, b \in Objects :
       a # b => hashers.given[a] \cap hashers.given[b] = {}
  /\ \A a \in Objects, b \in Objects :
       Hasher_equals(hashers.h, a, b) = (a = b /\ hashers.given[a] # {})
  /\ \A o \in Objects :
       hashers.given[o] # {} =>
         Hasher_hash(hashers.h, hashers.isExtensible, o).ret \in hashers.given[o]
  /\ hashers.call.op = "equals" =>
       hashers.call.ret = (hashers.call.a = hashers.call.b
                           /\ hashers.given[hashers.call.a] # {})

\* the hybrid hasher has tagged a and a was frozen after; b was frozen before it
\* was hashed and is in the WeakMap; equals(a, b) has just returned false
C25_Witness ==
  /\ hashers.h.kind = "hybrid"
  /\ \E a \in Objects, b \in Objects :
       /\ isHashTagged(hashers.h, a)
       /\ ~hashers.isExtensible[a]
       /\ hashers.h.map[b] # undefined
       /\ hashers.call = [op |-> "equals", a |-> a, b |-> b, ret |-> FALSE]
  /\ \E o \in Objects : hashers.given[o] = {}

\* the same with the WeakMap hasher: equals(a, a) is true for a hashed a
C25_WitnessWeak ==
  /\ hashers.h.kind = "weak"
  /\ \E a \in Objects :
       /\ hashers.given[a] # {}
       /\ hashers.call = [op |-> "equals", a |-> a, b |-> a, ret |-> TRUE]

\* C26: a callback of andModify or orInsertWith may call set and remove on the
\* map of the Entry (remove the key of the Entry, add keys until the map
\* grows): when the Entry call that called fn has returned, the key of the
\* Entry is present with the value fn returned, every other key is as the
\* calls of fn left it, no key is stored twice, and size() is the number of
\* pairs stored.
C26_ReentrantCallback ==
  (last.op \in {"Entry.andModify", "Entry.orInsertWith"} /\ last.calls # <<>>) =>
    /\ get(map, last.k) = some(last.v)
    /\ \A k \in AllKeys : get(map, k) = Expected(k)
    /\ \A k \in AllKeys : Cardinality(Places(map, k)) <= 1
    /\ size(map) = Len(Iterate(map))
    /\ size(map) = Cardinality({ k \in AllKeys : has(map, k) })

\* andModify has returned; its fn added keys to the map, which grew meanwhile
C26_Witness ==
  /\ last.op = "Entry.andModify"
  /\ last.calls # <<>>
  /\ size(map) > last.s
  /\ buckets(map) > last.b
  /\ get(map, last.k) = some(last.v)

\* orInsertWith has returned; its fn removed a key and added another
C26_WitnessInsert ==
  /\ last.op = "Entry.orInsertWith"
  /\ last.calls # <<>>
  /\ size(map) = last.s
  /\ size(map) > 0
  /\ get(map, last.k) = some(last.v)

\* C27: sets made on the map between two steps of a drain walk (after its
\* first next() and before the next() that ends it): when the walk has ended
\* it has yielded the pairs stored when its first step cleared the map, each
\* once, and none of the sets; get(k) gives what was set for every key set
\* meanwhile and absent for every other key, and size() is the number of keys
\* set meanwhile and of pairs stored.
C27_SetDuringDrain ==
  (gen.status = "completed" /\ last.op = "next" /\ gen.asides > gen.asidesAtStart) =>
    /\ gen.out = gen.atStart
    /\ \A k \in AllKeys : get(map, k) = Expected(k)
    /\ size(map) = Cardinality({ k \in AllKeys : assoc[k] # 0 })
    /\ size(map) = Len(Iterate(map))
    /\ size(map) >= 1
    /\ \A b \in 1..Len(gen.oldBuckets) : gen.oldBuckets[b] = <<>>

\* a walk over three pairs has ended; a set made after its first step put a
\* key in the map that the walk has yielded with another value
C27_Witness ==
  /\ gen.status = "completed"
  /\ last.op = "next"
  /\ gen.asides > gen.asidesAtStart
  /\ Len(gen.out) = 3
  /\ \E i \in 1..Len(gen.out) :
       /\ has(map, gen.out[i][1])
       /\ get(map, gen.out[i][1]) # some(gen.out[i][2])

====
